---------------------------- MODULE Spec2Model ----------------------------
(***************************************************************************)
(* Model of src/index.tsx: the intake surface (file picker, drop target,   *)
(* asynchronous preview) and the redesign exchange (runRedesigner) of the  *)
(* virtual stager page.                                                    *)
(*                                                                         *)
(* The page is single-threaded: every event handler and every resumption   *)
(* of an async function runs to completion, so each is one action.  What   *)
(* is asynchronous (the FileReader reads, the remote call) is in flight    *)
(* between two actions.                                                    *)
(***************************************************************************)
EXTENDS Naturals, Sequences, FiniteSets

\* ------------------------------------------------------------------ bounds

\* Longest sequence of parts in a response of the remote model.
MaxParts == 3

\* Most preview reads in flight at once.
MaxReaders == 2

\* ------------------------------------------------------------- file values

\* Declared MIME types, as character sequences (startsWith works on them).
ImagePrefix == <<"i", "m", "a", "g", "e", "/">>

PngType == ImagePrefix \o <<"p", "n", "g">>

JpegType == ImagePrefix \o <<"j", "p", "e", "g">>

TextType == <<"t", "e", "x", "t", "/", "p", "l", "a", "i", "n">>

\* The files the user can pick or drop: two images and one text file.
Files ==
    { [name |-> "room.png", type |-> PngType],
      [name |-> "photo.jpg", type |-> JpegType],
      [name |-> "notes.txt", type |-> TextType] }

\* A FileList: the code only ever reads files[0] and files.length.
FileLists == {<<>>} \cup { <<f>> : f \in Files }

\* String.prototype.startsWith
StartsWith(s, prefix) ==
    /\ Len(s) >= Len(prefix)
    /\ SubSeq(s, 1, Len(prefix)) = prefix

\* reader.result after readAsDataURL: "data:<type>;base64,<payload>", kept as
\* its comma-separated segments; null when the read failed.
NullResult == [null |-> TRUE]

DataURL(file) ==
    [null |-> FALSE, segments |-> << <<"data:", file.type, ";base64">>, <<"base64 of", file.name>> >>]

\* The preview container before any preview was rendered.
NoPreview == [empty |-> TRUE]

ReadResult(file, ok) == IF ok THEN DataURL(file) ELSE NullResult

\* ---------------------------------------------------------------- alerts

AlertNotImage == "Please select an image file."

AlertNoKey == "API key is not configured. Please set the environment variable."

AlertNoFile == "Please upload an image first."

AlertNoStyle == "Please enter a desired style."

NoAlert == "no alert"

\* ------------------------------------------------------------- text values

Styles == {"", "Scandinavian"}

InitialPlaceholder == "placeholder text of the page"

GeneratingText == "Generating your new room... Please wait."

NoImageMessage == "The model did not return an image. Please try again."

NetworkMessage == "Failed to fetch"

TypeErrorMessage == "Cannot read properties of undefined (reading '0')"

ErrorText(message) == <<"Sorry, an error occurred: ", message>>

NoSrc == <<>>

NoAlt == <<>>

JpegDataURL(base64Image) == <<"data:image/jpeg;base64,", base64Image>>

AltText(stylePrompt) == <<"Redesigned room in the style of ", stylePrompt>>

\* ------------------------------------------------------------- responses

TextPartOf(t) == [text |-> t]

InlinePartOf(d) == [inlineData |-> [data |-> d, mimeType |-> "image/png"]]

ResponseParts == {TextPartOf("Here is your room.")} \cup {InlinePartOf(d) : d \in {"imgA", "imgB"}}

SeqsUpTo(S, n) == UNION { [1..k -> S] : k \in 0..n }

\* What awaiting generateContent can produce: a rejection (network failure),
\* a response without candidates, or a response with an ordered list of parts.
Replies ==
    { [kind |-> "rejected", parts |-> <<>>], [kind |-> "nocandidates", parts |-> <<>>] }
        \cup { [kind |-> "ok", parts |-> p] : p \in SeqsUpTo(ResponseParts, MaxParts) }

NoResponse == [kind |-> "none", parts |-> <<>>]

NoRequest == [issued |-> FALSE]

VARIABLES
    apiKey,                 \* process.env.API_KEY is set
    fileInputFiles,         \* fileInput.files
    stylePromptValue,       \* stylePromptInput.value
    imagePreview,           \* src of the <img> in imagePreviewContainer, or NoPreview
    readers,                \* files whose preview read is in flight, oldest first
    lastPreviewed,          \* the file of the latest previewFile call, as a list of 0 or 1
    alerts,                 \* the alerts raised by the handler that ran last
    generateButtonDisabled, \* generateButton.disabled
    outputImageDisplay,     \* outputImage.style.display
    outputImageSrc,         \* outputImage.src
    outputImageAlt,         \* outputImage.alt
    placeholderText,        \* outputPlaceholder.textContent
    placeholderDisplay,     \* outputPlaceholder.style.display
    exchanges,              \* the runRedesigner invocations that have not returned
    response                \* outcome of the latest remote call awaited

vars ==
    << apiKey, fileInputFiles, stylePromptValue, imagePreview, readers, lastPreviewed,
       alerts, generateButtonDisabled, outputImageDisplay, outputImageSrc,
       outputImageAlt, placeholderText, placeholderDisplay, exchanges, response >>

intakeVars == << fileInputFiles, imagePreview, readers, lastPreviewed >>

outputVars ==
    << outputImageDisplay, outputImageSrc, outputImageAlt, placeholderText,
       placeholderDisplay >>

RemoveAt(s, i) == SubSeq(s, 1, i - 1) \o SubSeq(s, i + 1, Len(s))

ReplaceAt(s, i, e) == [s EXCEPT ![i] = e]

\* The page once DOMContentLoaded has run.  The markup is not part of the
\* sources, so the initial visibility of the two output elements is open.
Init ==
    /\ apiKey \in BOOLEAN
    /\ fileInputFiles = <<>>
    /\ stylePromptValue = ""
    /\ imagePreview = NoPreview
    /\ readers = <<>>
    /\ lastPreviewed = <<>>
    /\ alerts = <<>>
    /\ generateButtonDisabled = FALSE
    /\ outputImageDisplay \in {"none", "block"}
    /\ outputImageSrc = NoSrc
    /\ outputImageAlt = NoAlt
    /\ placeholderText = <<InitialPlaceholder>>
    /\ placeholderDisplay \in {"none", "block"}
    /\ exchanges = <<>>
    /\ response = NoResponse

\* ------------------------------------------------------------ intake surface

\* handleFiles, line 91: the test that lets a file through to previewFile.
AcceptsAll(files) == Len(files) > 0

Accepts(files) == Len(files) > 0 /\ StartsWith(files[1].type, ImagePrefix)

\* previewFile: a new FileReader starts reading the file.
previewFile(file) ==
    /\ Len(readers) < MaxReaders
    /\ readers' = Append(readers, file)
    /\ lastPreviewed' = <<file>>

handleFiles(files) ==
    IF Accepts(files)
    THEN /\ previewFile(files[1])
         /\ alerts' = <<>>
    ELSE /\ alerts' = <<AlertNotImage>>
         /\ UNCHANGED << readers, lastPreviewed >>

\* The 'change' event of the file input: the browser has set fileInput.files.
handleFileSelect(files) ==
    /\ fileInputFiles' = files
    /\ handleFiles(files)
    /\ UNCHANGED << apiKey, stylePromptValue, imagePreview, generateButtonDisabled,
                    outputVars, exchanges, response >>

\* The 'drop' event of the drop area.
handleDrop(files) ==
    /\ IF Len(files) > 0
       THEN /\ fileInputFiles' = files
            /\ handleFiles(files)
       ELSE /\ alerts' = <<>>
            /\ UNCHANGED << fileInputFiles, readers, lastPreviewed >>
    /\ UNCHANGED << apiKey, stylePromptValue, imagePreview, generateButtonDisabled,
                    outputVars, exchanges, response >>

\* reader.onloadend of a preview read: the reads are independent, any of them
\* may end next, with a result or with null.
previewLoadEnd(i, ok) ==
    /\ i \in 1..Len(readers)
    /\ imagePreview' = ReadResult(readers[i], ok)
    /\ readers' = RemoveAt(readers, i)
    /\ alerts' = <<>>
    /\ UNCHANGED << apiKey, fileInputFiles, stylePromptValue, lastPreviewed,
                    generateButtonDisabled, outputVars, exchanges, response >>

\* The user edits the style field.
typeStyle(s) ==
    /\ stylePromptValue # s
    /\ stylePromptValue' = s
    /\ alerts' = <<>>
    /\ UNCHANGED << apiKey, intakeVars, generateButtonDisabled, outputVars, exchanges,
                    response >>

\* ---------------------------------------------------------- redesign exchange

\* Lines 126-141: the preconditions, in the order the code tests them; the alert
\* of the first one that fails, NoAlert when all three hold.
FirstViolationStyleFirst ==
    IF ~apiKey THEN AlertNoKey
    ELSE IF stylePromptValue = "" THEN AlertNoStyle
    ELSE IF Len(fileInputFiles) = 0 THEN AlertNoFile
    ELSE NoAlert

FirstViolation ==
    IF ~apiKey THEN AlertNoKey
    ELSE IF Len(fileInputFiles) = 0 THEN AlertNoFile
    ELSE IF stylePromptValue = "" THEN AlertNoStyle
    ELSE NoAlert

\* alert(...); return;
RejectClickAsRemoteError(a) ==
    /\ alerts' = <<a>>
    /\ placeholderText' = <<"Sorry, an error occurred: ", a>>
    /\ placeholderDisplay' = "block"
    /\ outputImageDisplay' = "none"
    /\ UNCHANGED << generateButtonDisabled, outputImageSrc, outputImageAlt, exchanges,
                    response >>

RejectClickAfterLoadingState(a) ==
    /\ alerts' = <<a>>
    /\ outputImageDisplay' = "none"
    /\ placeholderText' = <<GeneratingText>>
    /\ placeholderDisplay' = "block"
    /\ UNCHANGED << generateButtonDisabled, outputImageSrc, outputImageAlt, exchanges,
                    response >>

RejectClick(a) ==
    /\ alerts' = <<a>>
    /\ UNCHANGED << generateButtonDisabled, outputVars, exchanges, response >>

\* Lines 143-152: the loading state, then the call of fileToGenerativePart, which
\* starts a FileReader on the file and suspends the invocation.
StartExchangeNoDisable ==
    /\ outputImageDisplay' = "none"
    /\ placeholderText' = <<GeneratingText>>
    /\ placeholderDisplay' = "block"
    /\ exchanges' = Append(exchanges, [pc |-> "encoding", file |-> fileInputFiles[1],
                                       stylePrompt |-> stylePromptValue,
                                       request |-> NoRequest])
    /\ response' = NoResponse
    /\ alerts' = <<>>
    /\ UNCHANGED << generateButtonDisabled, outputImageSrc, outputImageAlt >>

StartExchange ==
    /\ generateButtonDisabled' = TRUE
    /\ outputImageDisplay' = "none"
    /\ placeholderText' = <<GeneratingText>>
    /\ placeholderDisplay' = "block"
    /\ exchanges' = Append(exchanges, [pc |-> "encoding", file |-> fileInputFiles[1],
                                       stylePrompt |-> stylePromptValue,
                                       request |-> NoRequest])
    /\ response' = NoResponse
    /\ alerts' = <<>>
    /\ UNCHANGED << outputImageSrc, outputImageAlt >>

\* The 'click' event of generateButton, up to the first suspension.  A disabled
\* button dispatches no click.
runRedesigner ==
    /\ ~generateButtonDisabled
    /\ IF FirstViolation # NoAlert THEN RejectClick(FirstViolation) ELSE StartExchange
    /\ UNCHANGED << apiKey, intakeVars, stylePromptValue >>

\* fileToGenerativePart, lines 116 and 119-121: split(',')[1] of the data URL.
ImagePart(file) ==
    [inlineData |-> [data |-> DataURL(file).segments[2], mimeType |-> file.type]]

\* Lines 155-165.
InstructionPart(stylePrompt) == [text |-> <<"instruction template", stylePrompt>>]

\* Lines 167-175.
GenerateContentRequest(file, stylePrompt) ==
    [issued |-> TRUE,
     model |-> "gemini-2.5-flash-image-preview",
     parts |-> <<ImagePart(file), InstructionPart(stylePrompt)>>,
     responseModalities |-> <<"IMAGE", "TEXT">>]

\* reader.onloadend of the encoding read (line 115).  With a result the promise
\* resolves, the invocation resumes and issues the remote call.  With null, split
\* throws inside the event handler: resolve is never called and the invocation
\* stays suspended at line 152.
encodeLoadEnd(i, ok) ==
    /\ i \in 1..Len(exchanges)
    /\ exchanges[i].pc = "encoding"
    /\ exchanges' =
         ReplaceAt(exchanges, i,
            IF ok
            THEN [exchanges[i] EXCEPT
                    !.pc = "calling",
                    !.request = GenerateContentRequest(exchanges[i].file,
                                                       exchanges[i].stylePrompt)]
            ELSE [exchanges[i] EXCEPT !.pc = "suspended"])
    /\ alerts' = <<>>
    /\ UNCHANGED << apiKey, intakeVars, stylePromptValue, generateButtonDisabled,
                    outputVars, response >>

\* "base64Image" when the loop finds no inline-data part (undefined is falsy, as
\* is the empty string).
Undefined == ""

\* Lines 177-183: the data of the first part that has inlineData.
RECURSIVE ExtractImageNoBreak(_)
ExtractImageNoBreak(parts) ==
    IF parts = <<>> THEN Undefined
    ELSE IF "inlineData" \in DOMAIN parts[Len(parts)]
         THEN parts[Len(parts)].inlineData.data
         ELSE ExtractImageNoBreak(SubSeq(parts, 1, Len(parts) - 1))

RECURSIVE ExtractImage(_)
ExtractImage(parts) ==
    IF parts = <<>> THEN Undefined
    ELSE IF "inlineData" \in DOMAIN Head(parts)
         THEN Head(parts).inlineData.data
         ELSE ExtractImage(Tail(parts))

\* Lines 186-190.
ShowImageKeepPlaceholder(base64Image, stylePrompt) ==
    /\ outputImageSrc' = JpegDataURL(base64Image)
    /\ outputImageAlt' = AltText(stylePrompt)
    /\ outputImageDisplay' = "block"
    /\ UNCHANGED << placeholderText, placeholderDisplay >>

ShowImage(base64Image, stylePrompt) ==
    /\ placeholderDisplay' = "none"
    /\ outputImageSrc' = JpegDataURL(base64Image)
    /\ outputImageAlt' = AltText(stylePrompt)
    /\ outputImageDisplay' = "block"
    /\ UNCHANGED placeholderText

\* Lines 194-198.
ShowError(message) ==
    /\ placeholderText' = ErrorText(message)
    /\ placeholderDisplay' = "block"
    /\ outputImageDisplay' = "none"
    /\ UNCHANGED << outputImageSrc, outputImageAlt >>

\* error.message of what the try block throws for a reply without an image.
ErrorMessage(reply) ==
    IF reply.kind = "rejected" THEN NetworkMessage
    ELSE IF reply.kind = "nocandidates" THEN TypeErrorMessage
    ELSE NoImageMessage

\* The remote call settles and the invocation runs to its end (lines 167-201).
remoteDone(i, reply) ==
    /\ i \in 1..Len(exchanges)
    /\ exchanges[i].pc = "calling"
    /\ response' = reply
    /\ IF reply.kind = "ok" /\ ExtractImage(reply.parts) # Undefined
       THEN ShowImage(ExtractImage(reply.parts), exchanges[i].stylePrompt)
       ELSE ShowError(ErrorMessage(reply))
    /\ generateButtonDisabled' = FALSE
    /\ exchanges' = RemoveAt(exchanges, i)
    /\ alerts' = <<>>
    /\ UNCHANGED << apiKey, intakeVars, stylePromptValue >>

\* ------------------------------------------------------------ specification

FileSelect == \E files \in FileLists : handleFileSelect(files)

Drop == \E files \in FileLists : handleDrop(files)

PreviewLoadEnd == \E i \in 1..Len(readers), ok \in BOOLEAN : previewLoadEnd(i, ok)

TypeStyle == \E s \in Styles : typeStyle(s)

EncodeLoadEnd == \E i \in 1..Len(exchanges), ok \in BOOLEAN : encodeLoadEnd(i, ok)

RemoteDone == \E i \in 1..Len(exchanges), reply \in Replies : remoteDone(i, reply)

Next ==
    \/ FileSelect
    \/ Drop
    \/ PreviewLoadEnd
    \/ TypeStyle
    \/ runRedesigner
    \/ EncodeLoadEnd
    \/ RemoteDone

Spec == Init /\ [][Next]_vars

\* Every read a FileReader has started ends (onloadend always fires), and the
\* remote call settles; the user is under no obligation to act.
FairSpec ==
    /\ Spec
    /\ WF_vars(PreviewLoadEnd)
    /\ WF_vars(EncodeLoadEnd)
    /\ WF_vars(RemoteDone)

\* ------------------------------------------------------------------ claims

IsImageType(type) == StartsWith(type, ImagePrefix)

IsInline(part) == "inlineData" \in DOMAIN part

HasInline(parts) == \E i \in 1..Len(parts) : IsInline(parts[i])

IsErrorText(text) == Len(text) = 2 /\ text[1] = "Sorry, an error occurred: "

PreconditionFails == ~apiKey \/ fileInputFiles = <<>> \/ stylePromptValue = ""

\* C1: every exchange that a click has started ends with the trigger enabled
\* again: whenever the button is disabled, it is eventually enabled.
TriggerReenabled == generateButtonDisabled ~> ~generateButtonDisabled

\* C2: at most one exchange is in flight at any time, at most one remote call has
\* been issued and not settled, and the trigger is disabled for as long as an
\* exchange is in flight.
AtMostOneExchange ==
    /\ Len(exchanges) <= 1
    /\ Cardinality({ i \in 1..Len(exchanges) : exchanges[i].request.issued }) <= 1
    /\ (exchanges # <<>> => generateButtonDisabled)

RemoteCallInFlight ==
    /\ Len(exchanges) = 1
    /\ exchanges[1].pc = "calling"
    /\ exchanges[1].request.issued
    /\ generateButtonDisabled

\* C3: a click checks credential, file and style in that order and raises exactly
\* the alert of the first violated precondition, starting no exchange; every
\* exchange (hence every remote call) was started with the credential configured,
\* a file selected and a non-empty style.
ClickChecksPreconditions ==
    [][ /\ runRedesigner =>
            /\ (~apiKey => alerts' = <<AlertNoKey>>)
            /\ (apiKey /\ fileInputFiles = <<>> => alerts' = <<AlertNoFile>>)
            /\ (apiKey /\ fileInputFiles # <<>> /\ stylePromptValue = ""
                    => alerts' = <<AlertNoStyle>>)
            /\ (PreconditionFails => exchanges' = exchanges)
            /\ (~PreconditionFails => alerts' = <<>>)
        /\ \A i \in 1..Len(exchanges') :
               /\ apiKey
               /\ exchanges'[i].file \in Files
               /\ exchanges'[i].stylePrompt # ""
      ]_vars

EmptyStyleClickAlerted ==
    /\ alerts = <<AlertNoStyle>>
    /\ fileInputFiles # <<>>
    /\ stylePromptValue = ""
    /\ exchanges = <<>>

\* C4: once an exchange has completed, exactly one of the output image and the
\* placeholder is visible: the image after a response with an inline-data part,
\* the placeholder with an error message after a response without one or a
\* remote error.
OutputAfterExchange ==
    response # NoResponse =>
        /\ (outputImageDisplay = "block") # (placeholderDisplay = "block")
        /\ IF response.kind = "ok" /\ HasInline(response.parts)
           THEN outputImageDisplay = "block" /\ placeholderDisplay = "none"
           ELSE /\ placeholderDisplay = "block"
                /\ IsErrorText(placeholderText)
                /\ outputImageDisplay = "none"

NoImageAfterEarlierSuccess ==
    /\ response.kind = "ok"
    /\ response.parts # <<>>
    /\ ~HasInline(response.parts)
    /\ outputImageSrc # NoSrc
    /\ outputImageDisplay = "none"
    /\ placeholderText = ErrorText(NoImageMessage)

\* C5: the image displayed after a response is the data of the first part that
\* carries inline data, whatever precedes and whatever follows it.
FirstInlinePartWins ==
    response.kind = "ok" =>
        \A i \in 1..Len(response.parts) :
            (/\ IsInline(response.parts[i])
             /\ \A j \in 1..(i - 1) : ~IsInline(response.parts[j]))
                => outputImageSrc = JpegDataURL(response.parts[i].inlineData.data)

SecondPartExtracted ==
    /\ response.kind = "ok"
    /\ Len(response.parts) = 3
    /\ ~IsInline(response.parts[1])
    /\ IsInline(response.parts[2])
    /\ IsInline(response.parts[3])
    /\ response.parts[2].inlineData.data # response.parts[3].inlineData.data
    /\ outputImageSrc = JpegDataURL(response.parts[2].inlineData.data)

\* C6: selecting or dropping a file whose type does not begin with "image/"
\* raises the alert and starts no preview read, and neither the preview nor a
\* read in flight is ever that of such a file.
RejectedFileNeverPreviewed ==
    [][ /\ \A files \in FileLists :
               (/\ files # <<>>
                /\ ~IsImageType(files[1].type)
                /\ handleFileSelect(files) \/ handleDrop(files))
                   => /\ alerts' = <<AlertNotImage>>
                      /\ imagePreview' = imagePreview
                      /\ readers' = readers
        /\ \A f \in Files :
               ~IsImageType(f.type) =>
                   /\ imagePreview' # DataURL(f)
                   /\ \A i \in 1..Len(readers') : readers'[i] # f
      ]_vars

PreviewKeptOnRejection ==
    /\ alerts = <<AlertNotImage>>
    /\ fileInputFiles # <<>>
    /\ ~IsImageType(fileInputFiles[1].type)
    /\ readers = <<>>
    /\ \E f \in Files : imagePreview = DataURL(f)

\* C7 as stated: a click with the credential missing puts an error message in the
\* placeholder, shows it and hides the output image.
MissingCredentialShownInOutput ==
    [][ (runRedesigner /\ ~apiKey) =>
            /\ IsErrorText(placeholderText')
            /\ placeholderDisplay' = "block"
            /\ outputImageDisplay' = "none"
      ]_vars

\* C7 as amended: a click with the credential missing raises the "API key is not
\* configured" alert and leaves the output surface as it was: placeholder text and
\* visibility, and the visibility of the output image.
MissingCredentialAlerted ==
    [][ (runRedesigner /\ ~apiKey) =>
            /\ alerts' = <<AlertNoKey>>
            /\ placeholderText' = placeholderText
            /\ placeholderDisplay' = placeholderDisplay
            /\ outputImageDisplay' = outputImageDisplay
      ]_vars

MissingCredentialImageStillShown ==
    /\ ~apiKey
    /\ alerts = <<AlertNoKey>>
    /\ placeholderText = <<InitialPlaceholder>>
    /\ outputImageDisplay = "block"

\* C8: a click that fails a precondition leaves the output image (visibility,
\* source), the placeholder (visibility, text) and the trigger's enabled flag
\* unchanged.
FailedClickLeavesOutput ==
    [][ (runRedesigner /\ PreconditionFails) =>
            /\ outputImageDisplay' = outputImageDisplay
            /\ outputImageSrc' = outputImageSrc
            /\ placeholderDisplay' = placeholderDisplay
            /\ placeholderText' = placeholderText
            /\ generateButtonDisabled' = generateButtonDisabled
      ]_vars

FailedClickAfterSuccess ==
    /\ alerts = <<AlertNoFile>>
    /\ outputImageDisplay = "block"
    /\ outputImageSrc # NoSrc
    /\ placeholderDisplay = "none"
    /\ ~generateButtonDisabled

\* C9: the file carried by every remote call has a type that begins with
\* "image/".
SentFileIsImage ==
    \A i \in 1..Len(exchanges) :
        exchanges[i].request.issued
            => IsImageType(exchanges[i].request.parts[1].inlineData.mimeType)

\* C10: once no preview read is in flight, the preview (when the last read to end
\* gave a result) shows the file most recently accepted.
PreviewShowsLatest ==
    (readers = <<>> /\ lastPreviewed # <<>> /\ imagePreview # NullResult)
        => imagePreview = DataURL(lastPreviewed[1])

=============================================================================
